---- MODULE Spec2Model ----
(***************************************************************************)
(* Model of the import command of beancount-gocardless-importer            *)
(* (src/src/main.rs): the ledger is read, `import` indexes what is already *)
(* in it, then per file and per configured account appends the new booked  *)
(* transactions and a balance assertion, and the ledger is written back.   *)
(*                                                                         *)
(* Representation.  Option<T>: None is <<>>, Some(x) is <<x>>.  Texts that *)
(* the code inspects (links, amounts) are sequences of one-character       *)
(* strings.  A calendar date is its day number.  A decimal is an integer.  *)
(***************************************************************************)
EXTENDS Integers, Sequences, FiniteSets, TLC

VARIABLES
    disk,              \* the ledger as stored: file -> sequence of directives
    feed,              \* the bank's answers: external account id -> transactions and balances
    ledger,            \* the in-memory Ledger of the running command
    order,             \* the order in which ledger.files is iterated
    pc,                \* position of the command
    ids,               \* import: ids
    last_balance,      \* import: last_balance
    last_transaction,  \* import: last_transaction
    fi,                \* index in order of the file of the outer loop
    to_import,         \* import: to_import of the current file
    ai,                \* index in to_import of the account of the inner loops
    pending_bag,       \* import: pending_bag of the current file
    runs,              \* number of runs that have written the ledger
    prevFeed,          \* Some(feed of the previous run) when that run wrote the ledger
    prevDisk,          \* the stored ledger as the previous run read it
    failure            \* where and how the current run failed

vars == <<disk, feed, ledger, order, pc, ids, last_balance, last_transaction,
          fi, to_import, ai, pending_bag, runs, prevFeed, prevDisk, failure>>

-----------------------------------------------------------------------------
(* Bounds of the model *)

MaxRuns == 2
MaxBooked == 3
MaxDay == 3

-----------------------------------------------------------------------------
(* Option and small helpers *)

None == <<>>
Some(x) == <<x>>
IsSome(o) == o # <<>>
Unwrap(o) == o[1]

EmptyMap == <<>>

Put(m, k, v) == [x \in (DOMAIN m) \cup {k} |-> IF x = k THEN v ELSE m[x]]

Last(s) == s[Len(s)]

Reverse(s) == [i \in 1..Len(s) |-> s[Len(s) + 1 - i]]

starts_with(s, p) == Len(s) >= Len(p) /\ SubSeq(s, 1, Len(p)) = p

-----------------------------------------------------------------------------
(* Texts and their parsers *)

Digits == <<"0", "1", "2", "3", "4", "5", "6", "7", "8", "9">>

IsDigit(c) == \E i \in 1..10 : Digits[i] = c

DigitValue(c) == (CHOOSE i \in 1..10 : Digits[i] = c) - 1

RECURSIVE DigitsValue(_, _)
DigitsValue(s, acc) ==
    IF s = <<>> THEN acc ELSE DigitsValue(Tail(s), 10 * acc + DigitValue(Head(s)))

AllDigits(s) == s # <<>> /\ \A i \in 1..Len(s) : IsDigit(s[i])

\* str::parse::<Decimal>() and Decimal::from_str_exact on integer texts:
\* an optional sign and at least one digit, anything else is an error.
ParseDecimal(s) ==
    IF s # <<>> /\ Head(s) = "-" /\ AllDigits(Tail(s))
    THEN [ok |-> TRUE, value |-> 0 - DigitsValue(Tail(s), 0)]
    ELSE IF AllDigits(s)
    THEN [ok |-> TRUE, value |-> DigitsValue(s, 0)]
    ELSE [ok |-> FALSE, value |-> 0]

\* A date text is either malformed or a well-formed %Y-%m-%d prefix (its day
\* number) followed by a remainder that parse_and_remainder ignores.
DateText(d, r) == [valid |-> TRUE, day |-> d, rest |-> r]
BadDateText == [valid |-> FALSE, day |-> 0, rest |-> "n/a"]

parse_and_remainder(t) ==
    IF t.valid THEN [ok |-> TRUE, date |-> t.day] ELSE [ok |-> FALSE, date |-> 0]

IdPrefix == <<"i", "d", "-">>

\* format!("id-{}", id)
format_link(id) == IdPrefix \o id

RECURSIVE join(_, _)
join(strs, sep) ==
    IF strs = <<>> THEN ""
    ELSE IF Len(strs) = 1 THEN strs[1]
    ELSE strs[1] \o sep \o join(Tail(strs), sep)

-----------------------------------------------------------------------------
(* Directives *)

Amount(v, c) == [value |-> v, currency |-> c]

Posting(a, amt) == [account |-> a, amount |-> Some(amt)]

TransactionDirective(date, narr, links, postings, metadata) ==
    [kind |-> "Transaction", date |-> date, narration |-> narr, links |-> links,
     postings |-> postings, metadata |-> metadata]

BalanceDirective(date, account, amount) ==
    [kind |-> "Balance", date |-> date, account |-> account, amount |-> amount,
     metadata |-> EmptyMap]

OpenDirective(date, account, metadata) ==
    [kind |-> "Open", date |-> date, account |-> account, metadata |-> metadata]

NoteDirective(date) == [kind |-> "Note", date |-> date, metadata |-> EmptyMap]

StringValue(s) == [type |-> "String", value |-> s]
NumberValue(n) == [type |-> "Number", value |-> n]

-----------------------------------------------------------------------------
(* narration and gocardless_transaction_to_beancount *)

narration(t) ==
    IF IsSome(t.remittance_information_unstructured_array)
       /\ Unwrap(t.remittance_information_unstructured_array) # <<>>
    THEN Some(join(Unwrap(t.remittance_information_unstructured_array), ", "))
    ELSE IF IsSome(t.remittance_information_unstructured)
    THEN Some(Unwrap(t.remittance_information_unstructured))
    ELSE t.creditor_name

\* Of the optional fields copied to the metadata the feed model carries
\* creditor_name only.
TransactionMetadata(t) ==
    IF IsSome(t.creditor_name)
    THEN Put(EmptyMap, "to_name", StringValue(Unwrap(t.creditor_name)))
    ELSE EmptyMap

TransactionLinks(t) ==
    IF IsSome(t.internal_transaction_id)
    THEN {format_link(Unwrap(t.internal_transaction_id))}
    ELSE {}

\* [ok |-> FALSE] is the Err of `?`: booking date missing, date or amount
\* not parseable.
gocardless_transaction_to_beancount(t, account) ==
    IF ~IsSome(t.booking_date) THEN [ok |-> FALSE, d |-> NoteDirective(0)]
    ELSE LET date == parse_and_remainder(Unwrap(t.booking_date))
             value == ParseDecimal(t.transaction_amount.amount)
         IN  IF ~date.ok \/ ~value.ok THEN [ok |-> FALSE, d |-> NoteDirective(0)]
             ELSE [ok |-> TRUE,
                   d  |-> TransactionDirective(
                              date.date, narration(t), TransactionLinks(t),
                              <<Posting(account,
                                        Amount(value.value, t.transaction_amount.currency))>>,
                              TransactionMetadata(t))]

\* is_duplicate looking up the id without its prefix
is_duplicate_raw_id(d, idset) ==
    IF d.kind # "Transaction" THEN FALSE
    ELSE \E link \in d.links : SubSeq(link, Len(IdPrefix) + 1, Len(link)) \in idset

is_duplicate(d, idset) ==
    IF d.kind # "Transaction" THEN FALSE
    ELSE \E link \in d.links : link \in idset

-----------------------------------------------------------------------------
(* The indexing pass of import (lines 237-268) *)

MaxInto(m, k, date) ==
    IF k \in DOMAIN m
    THEN (IF m[k] < date THEN Put(m, k, date) ELSE m)
    ELSE Put(m, k, date)

RECURSIVE IndexPostings(_, _, _)
IndexPostings(lt, postings, date) ==
    IF postings = <<>> THEN lt
    ELSE IndexPostings(MaxInto(lt, Head(postings).account, date), Tail(postings), date)

\* IndexBalance with <= for <: of equal dates the last one seen is kept
IndexBalanceLastSeen(lb, d) ==
    IF d.account \in DOMAIN lb
    THEN (IF lb[d.account][1] <= d.date
          THEN Put(lb, d.account, <<d.date, d.amount>>)
          ELSE lb)
    ELSE Put(lb, d.account, <<d.date, d.amount>>)

IndexBalance(lb, d) ==
    IF d.account \in DOMAIN lb
    THEN (IF lb[d.account][1] < d.date
          THEN Put(lb, d.account, <<d.date, d.amount>>)
          ELSE lb)
    ELSE Put(lb, d.account, <<d.date, d.amount>>)

\* IndexDirective whose Balance arm keeps the first assertion of an account
IndexDirectiveFirstBalance(idx, d) ==
    IF d.kind = "Transaction"
    THEN [idx EXCEPT
            !.ids = @ \cup {link \in d.links : starts_with(link, IdPrefix)},
            !.last_transaction = IndexPostings(@, d.postings, d.date)]
    ELSE IF d.kind = "Balance" /\ d.account \notin DOMAIN idx.last_balance
    THEN [idx EXCEPT !.last_balance = Put(@, d.account, <<d.date, d.amount>>)]
    ELSE idx

IndexDirective(idx, d) ==
    IF d.kind = "Transaction"
    THEN [idx EXCEPT
            !.ids = @ \cup {link \in d.links : starts_with(link, IdPrefix)},
            !.last_transaction = IndexPostings(@, d.postings, d.date)]
    ELSE IF d.kind = "Balance"
    THEN [idx EXCEPT !.last_balance = IndexBalance(@, d)]
    ELSE idx

RECURSIVE IndexDirectives(_, _)
IndexDirectives(idx, ds) ==
    IF ds = <<>> THEN idx
    ELSE IndexDirectives(IndexDirective(idx, Head(ds)), Tail(ds))

RECURSIVE IndexFiles(_, _, _)
IndexFiles(idx, files, l) ==
    IF files = <<>> THEN idx
    ELSE IndexFiles(IndexDirectives(idx, l[Head(files)]), Tail(files), l)

EmptyIndex == [ids |-> {}, last_balance |-> EmptyMap, last_transaction |-> EmptyMap]

-----------------------------------------------------------------------------
(* The scan for configured accounts (lines 272-286) *)

IsConfigured(d) ==
    /\ d.kind = "Open"
    /\ "importer" \in DOMAIN d.metadata
    /\ d.metadata["importer"].type = "String"
    /\ d.metadata["importer"].value = "gocardless"
    /\ "account_id" \in DOMAIN d.metadata
    /\ d.metadata["account_id"].type = "String"

RECURSIVE ScanToImport(_)
ScanToImport(ds) ==
    IF ds = <<>> THEN <<>>
    ELSE (IF IsConfigured(Head(ds))
          THEN <<<<Head(ds).metadata["account_id"].value, Head(ds).account>>>>
          ELSE <<>>) \o ScanToImport(Tail(ds))

-----------------------------------------------------------------------------
(* The transactions of one account (lines 299-324) *)

RECURSIVE BookedDirectives(_, _, _)
BookedDirectives(booked, account, idset) ==
    IF booked = <<>> THEN [ok |-> TRUE, ds |-> <<>>]
    ELSE LET r == gocardless_transaction_to_beancount(Head(booked), account)
         IN  IF ~r.ok THEN [ok |-> FALSE, ds |-> <<>>]
             ELSE LET rest == BookedDirectives(Tail(booked), account, idset)
                  IN  IF ~rest.ok THEN rest
                      ELSE [ok |-> TRUE,
                            ds |-> (IF is_duplicate(r.d, idset) THEN <<>> ELSE <<r.d>>)
                                   \o rest.ds]

\* Bag += Amount
BagAdd(bag, value, currency) ==
    Put(bag, currency, (IF currency \in DOMAIN bag THEN bag[currency] ELSE 0) + value)

RECURSIVE AddPending(_, _, _)
AddPending(pb, pending, account) ==
    IF pending = <<>> THEN [ok |-> TRUE, bag |-> pb]
    ELSE LET value == ParseDecimal(Head(pending).transaction_amount.amount)
         IN  IF ~value.ok THEN [ok |-> FALSE, bag |-> pb]
             ELSE AddPending(
                      Put(pb, account,
                          BagAdd(IF account \in DOMAIN pb THEN pb[account] ELSE EmptyMap,
                                 value.value,
                                 Head(pending).transaction_amount.currency)),
                      Tail(pending), account)

\* insertion of d behind every element whose date is not later: stable
RECURSIVE InsertByDate(_, _)
InsertByDate(sorted, d) ==
    IF sorted = <<>> THEN <<d>>
    ELSE IF Head(sorted).date <= d.date
    THEN <<Head(sorted)>> \o InsertByDate(Tail(sorted), d)
    ELSE <<d>> \o sorted

RECURSIVE SortFrom(_, _)
SortFrom(sorted, ds) ==
    IF ds = <<>> THEN sorted ELSE SortFrom(InsertByDate(sorted, Head(ds)), Tail(ds))

\* Vec::sort_by_key(|d| d.date), a stable sort
sort_by_date(ds) == SortFrom(<<>>, ds)

\* OrderNew without the reverse
OrderNewUnreversed(ds) == sort_by_date(ds)

\* new_directives.reverse(); new_directives.sort_by_key(|d| d.date);
OrderNew(ds) == sort_by_date(Reverse(ds))

\* NoteLastNew taking the first directive of the batch for the last
NoteLastNewFirst(lt, account, new) ==
    IF new = <<>> THEN lt ELSE MaxInto(lt, account, Head(new).date)

\* lines 316-322
NoteLastNew(lt, account, new) ==
    IF new = <<>> THEN lt ELSE MaxInto(lt, account, Last(new).date)

-----------------------------------------------------------------------------
(* The balance of one account (lines 334-372) *)

\* AdjustedAmount subtracting whatever is pending, of any currency
AdjustedAmountAnyCurrency(b, pb, account) ==
    LET value == ParseDecimal(b.balance_amount.amount).value
        currency == b.balance_amount.currency
        RECURSIVE Total(_)
        Total(cs) == IF cs = {} THEN 0
                     ELSE LET c == CHOOSE x \in cs : TRUE
                          IN  pb[account][c] + Total(cs \ {c})
    IN  IF account \in DOMAIN pb
        THEN Amount(value - Total(DOMAIN pb[account]), currency)
        ELSE Amount(value, currency)

\* lines 337-345: the first reported balance less the pending amounts of its
\* currency
AdjustedAmount(b, pb, account) ==
    LET value == ParseDecimal(b.balance_amount.amount).value
        currency == b.balance_amount.currency
    IN  IF account \in DOMAIN pb /\ currency \in DOMAIN pb[account]
        THEN Amount(value - pb[account][currency], currency)
        ELSE Amount(value, currency)

\* lines 356-365; [ok |-> FALSE] is the panic of an unwrap: on the reference
\* date that does not parse (line 360), on the account without a last
\* transaction date (line 364)
BalanceDate(b, lt, account) ==
    IF IsSome(b.reference_date)
    THEN LET rd == parse_and_remainder(Unwrap(b.reference_date))
         IN  [ok |-> rd.ok, date |-> rd.date, cause |-> "reference_date"]
    ELSE IF account \in DOMAIN lt
    THEN [ok |-> TRUE, date |-> lt[account] + 1, cause |-> "none"]
    ELSE [ok |-> FALSE, date |-> 0, cause |-> "no_date"]

\* What one iteration of the balance loop does: "continue" (no balance
\* reported, or the previous assertion matches), "err" (`?`), "panic"
\* (unwrap) or "push" with the directive pushed.
BalanceOutcome(balances, pb, lb, lt, account) ==
    IF ~IsSome(balances) \/ Unwrap(balances) = <<>>
    THEN [what |-> "continue", cause |-> "none", d |-> NoteDirective(0)]
    ELSE LET b == Unwrap(balances)[1]
         IN  IF ~ParseDecimal(b.balance_amount.amount).ok
             THEN [what |-> "err", cause |-> "amount", d |-> NoteDirective(0)]
             ELSE LET amount == AdjustedAmount(b, pb, account)
                      date == BalanceDate(b, lt, account)
                  IN  IF account \in DOMAIN lb /\ amount = lb[account][2]
                      THEN [what |-> "continue", cause |-> "none", d |-> NoteDirective(0)]
                      ELSE IF ~date.ok
                      THEN [what |-> "panic", cause |-> date.cause, d |-> NoteDirective(0)]
                      ELSE [what |-> "push", cause |-> "none",
                            d |-> BalanceDirective(date.date, account, amount)]

-----------------------------------------------------------------------------
(* The inputs: ledgers as stored and answers of the bank *)

Files == {"f1", "f2"}

\* ledger.files is a map: its iteration order is not the program's choice.
\* Either order is considered, the same in every run and in both loops.
Orders == {<<"f1", "f2">>, <<"f2", "f1">>}

Configured(account, importer, account_id) ==
    OpenDirective(0, account,
                  Put(Put(EmptyMap, "importer", importer), "account_id", account_id))

\* A and B configured in one file; C is another importer's
LedgerOne(h1, h2) ==
    [f \in Files |->
        IF f = "f1"
        THEN <<Configured("A", StringValue("gocardless"), StringValue("X")),
               Configured("B", StringValue("gocardless"), StringValue("Y"))>> \o h1
        ELSE <<Configured("C", StringValue("other"), StringValue("Z")),
               NoteDirective(1)>> \o h2]

\* A and B in two files, on the same external account; C lacks a usable
\* account_id, D has no metadata
LedgerTwo(h1, h2) ==
    [f \in Files |->
        IF f = "f1"
        THEN <<Configured("A", StringValue("gocardless"), StringValue("X"))>> \o h1
        ELSE <<Configured("B", StringValue("gocardless"), StringValue("X")),
               Configured("C", StringValue("gocardless"), NumberValue(1)),
               OpenDirective(0, "D", EmptyMap)>> \o h2]

\* A transaction as a user keeps it: the imported posting and the other leg
Kept(day, links, account) ==
    TransactionDirective(day, Some("kept"), links,
                         <<Posting(account, Amount(9, "USD")),
                           [account |-> "E", amount |-> None]>>,
                         EmptyMap)

Text(n) == <<Digits[n + 1]>>

Rec(id, date, amount, arr, unstructured, creditor) ==
    [internal_transaction_id |-> id,
     booking_date |-> date,
     transaction_amount |-> [amount |-> amount, currency |-> "USD"],
     remittance_information_unstructured_array |-> arr,
     remittance_information_unstructured |-> unstructured,
     creditor_name |-> creditor]

Pending(amount, currency) ==
    [transaction_amount |-> [amount |-> amount, currency |-> currency]]

Bal(amount, currency, ref) ==
    [balance_amount |-> [amount |-> amount, currency |-> currency],
     reference_date |-> ref]

Answer(booked, pending, balances) ==
    [booked |-> booked, pending |-> pending, balances |-> balances]

Feed(x, y) == [id \in {"X", "Y"} |-> IF id = "X" THEN x ELSE y]

On(day) == Some(DateText(day, ""))

QuietY == Answer(<<>>, None, None)

BusyY ==
    Answer(<<Rec(Some(Text(7)), On(1), Text(2), None, None, Some("shop"))>>,
           Some(<<>>),
           Some(<<Bal(Text(9), "USD", On(MaxDay))>>))

(* General inputs: records already imported, repeated, without id, broken *)

Ta == Rec(Some(Text(1)), On(2), Text(5), None, Some("rent"), None)
Ta2 == Rec(Some(Text(1)), Some(DateText(MaxDay, "T10:00")), <<"-", "7">>,
           Some(<<"rent", "may">>), Some("rent"), Some("landlord"))
Tb == Rec(Some(Text(2)), On(1), <<"-", "3">>, Some(<<>>), None, Some("shop"))
Tn == Rec(None, On(2), Text(5), None, None, None)
NoBookingDate == Rec(Some(Text(3)), None, Text(5), None, None, None)
NoAmount == Rec(Some(Text(3)), On(1), <<"x">>, None, None, None)
BadBookingDate == Rec(Some(Text(3)), Some(BadDateText), Text(5), None, None, None)

GeneralBooked ==
    {<<>>, <<Ta>>, <<Ta2>>, <<Tb, Ta>>, <<Ta, Ta2>>, <<Tn>>, <<Tn, Tb>>,
     <<Tb, NoBookingDate>>, <<NoAmount>>, <<BadBookingDate, Ta>>}

GeneralBalances ==
    {None,
     Some(<<Bal(Text(5), "USD", On(2))>>),
     Some(<<Bal(Text(5), "USD", None)>>),
     Some(<<Bal(<<"x">>, "USD", None)>>)}

GeneralFeeds ==
    {Feed(Answer(b, None, bal), BusyY) : b \in GeneralBooked, bal \in GeneralBalances}

GeneralHistory ==
    {<<>>,
     <<Kept(1, {format_link(Text(1))}, "A")>>,
     <<Kept(1, {format_link(Text(1)), <<"r", "e", "f">>}, "B"),
       BalanceDirective(2, "A", Amount(5, "USD"))>>,
     <<BalanceDirective(MaxDay, "A", Amount(4, "USD"))>>}

GeneralLedgers ==
    {LedgerOne(h, <<>>) : h \in GeneralHistory}
        \cup {LedgerTwo(h, <<>>) : h \in GeneralHistory}

(* Inputs for the order of a batch: every list of booking days *)

Days == 1..MaxDay

DayLists == UNION {[1..n -> Days] : n \in 0..MaxBooked}

Dated(days) ==
    [k \in 1..Len(days) |->
        Rec(Some(Text(k)), On(days[k]), Text(k), None, None, None)]

OrderFeeds ==
    {Feed(Answer(Dated(days), None, None), QuietY) : days \in DayLists}

OrderLedgers ==
    {LedgerOne(<<>>, <<>>), LedgerOne(<<Kept(1, {format_link(Text(2))}, "A")>>, <<>>)}

(* Inputs for the balance assertions: pending amounts, two currencies, *)
(* reference dates, earlier assertions                                 *)

BalanceBooked ==
    {<<>>, <<Ta>>, <<Rec(Some(Text(4)), On(MaxDay), Text(1), None, None, None), Tb>>}

BalancePending ==
    {None,
     Some(<<Pending(Text(1), "USD")>>),
     Some(<<Pending(Text(1), "USD"), Pending(Text(2), "EUR")>>),
     Some(<<Pending(Text(1), "USD"), Pending(Text(1), "USD")>>),
     Some(<<Pending(<<"x">>, "USD")>>)}

BalanceBalances ==
    {Some(<<>>),
     Some(<<Bal(Text(5), "USD", On(2))>>),
     Some(<<Bal(Text(5), "USD", None)>>),
     Some(<<Bal(Text(5), "USD", None), Bal(Text(1), "USD", On(1))>>),
     Some(<<Bal(Text(6), "EUR", None)>>),
     Some(<<Bal(Text(5), "USD", Some(BadDateText))>>)}

BalanceFeeds ==
    {Feed(Answer(b, p, bal), QuietY) :
        b \in BalanceBooked, p \in BalancePending, bal \in BalanceBalances}

BalanceHistory ==
    {<<>>,
     <<Kept(1, {}, "A")>>,
     <<BalanceDirective(1, "A", Amount(4, "USD"))>>,
     <<Kept(2, {}, "A"), BalanceDirective(1, "A", Amount(3, "USD"))>>,
     <<BalanceDirective(1, "A", Amount(4, "EUR"))>>,
     <<Kept(MaxDay, {}, "B"), Kept(1, {}, "A"), Kept(2, {}, "A")>>}

BalanceLedgers == {LedgerOne(h, <<>>) : h \in BalanceHistory}

(* Inputs for the index: earlier assertions of one account in both files *)

Assertions ==
    {BalanceDirective(d, "A", Amount(v, "USD")) : d \in 1..2, v \in 4..5}

IndexHistory == {<<>>} \cup {<<a>> : a \in Assertions}
                    \cup {<<a, b>> : a \in Assertions, b \in Assertions}

IndexLedgers ==
    {LedgerOne(h1, h2) :
        h1 \in IndexHistory,
        h2 \in {<<>>, <<BalanceDirective(2, "A", Amount(6, "USD"))>>}}

IndexFeeds == {Feed(Answer(<<Ta>>, None, Some(<<Bal(Text(5), "USD", On(2))>>)), QuietY)}

\* What the bank may answer in a later run when its answers have changed
LaterFeeds ==
    {Feed(Answer(<<Tb, Ta>>, None, Some(<<Bal(Text(2), "USD", On(MaxDay))>>)), BusyY)}

-----------------------------------------------------------------------------
(* The command: main, Commands::Import (lines 481-493), and import *)

NoFailure == [kind |-> "none", phase |-> "none", cause |-> "none"]

\* Append1 putting the directives in front
Prepend1(l, f, ds) == [l EXCEPT ![f] = ds \o @]

Append1(l, f, ds) == [l EXCEPT ![f] = @ \o ds]

\* Ledger::read; what the bank answers during this run is fixed here: as in
\* the run before, or changed
ReadLedger ==
    /\ pc = "idle"
    /\ runs < MaxRuns
    /\ ledger' = disk
    /\ feed' \in {feed} \cup (IF runs > 0 THEN LaterFeeds ELSE {})
    /\ pc' = "import"
    /\ UNCHANGED <<disk, order, ids, last_balance, last_transaction, fi, to_import,
                   ai, pending_bag, runs, prevFeed, prevDisk, failure>>

\* lines 235-268: the token is there, the three indices are built
Index ==
    /\ pc = "import"
    /\ LET idx == IndexFiles(EmptyIndex, order, ledger)
       IN  /\ ids' = idx.ids
           /\ last_balance' = idx.last_balance
           /\ last_transaction' = idx.last_transaction
    /\ fi' = 1
    /\ pc' = "file"
    /\ UNCHANGED <<disk, feed, ledger, order, to_import, ai, pending_bag, runs,
                   prevFeed, prevDisk, failure>>

\* lines 270-288: the next file of the outer loop
ScanFile ==
    /\ pc = "file"
    /\ fi <= Len(order)
    /\ to_import' = ScanToImport(ledger[order[fi]])
    /\ pending_bag' = EmptyMap
    /\ ai' = 1
    /\ pc' = "transactions"
    /\ UNCHANGED <<disk, feed, ledger, order, ids, last_balance, last_transaction,
                   fi, runs, prevFeed, prevDisk, failure>>

\* lines 289-325: one iteration of the transactions loop that succeeds
AddTransactions ==
    /\ pc = "transactions"
    /\ ai <= Len(to_import)
    /\ LET account_id == to_import[ai][1]
           account == to_import[ai][2]
           res == feed[account_id]
           booked == BookedDirectives(res.booked, account, ids)
           pend == AddPending(pending_bag,
                              IF IsSome(res.pending) THEN Unwrap(res.pending) ELSE <<>>,
                              account)
           new_directives == OrderNew(booked.ds)
       IN  /\ booked.ok
           /\ pend.ok
           /\ pending_bag' = pend.bag
           /\ last_transaction' = NoteLastNew(last_transaction, account, new_directives)
           /\ ledger' = Append1(ledger, order[fi], new_directives)
    /\ ai' = ai + 1
    /\ UNCHANGED <<disk, feed, order, pc, ids, last_balance, fi, to_import, runs,
                   prevFeed, prevDisk, failure>>

\* lines 301 and 308: `?` on a record that cannot be converted
TransactionsFail ==
    /\ pc = "transactions"
    /\ ai <= Len(to_import)
    /\ LET account_id == to_import[ai][1]
           account == to_import[ai][2]
           res == feed[account_id]
           booked == BookedDirectives(res.booked, account, ids)
           pend == AddPending(pending_bag,
                              IF IsSome(res.pending) THEN Unwrap(res.pending) ELSE <<>>,
                              account)
       IN  ~(booked.ok /\ pend.ok)
    /\ pc' = "failed"
    /\ failure' = [kind |-> "Err", phase |-> "transactions", cause |-> "record"]
    /\ UNCHANGED <<disk, feed, ledger, order, ids, last_balance, last_transaction,
                   fi, to_import, ai, pending_bag, runs, prevFeed, prevDisk>>

\* line 326: the transactions loop is over, the balance loop starts
StartBalances ==
    /\ pc = "transactions"
    /\ ai > Len(to_import)
    /\ ai' = 1
    /\ pc' = "balances"
    /\ UNCHANGED <<disk, feed, ledger, order, ids, last_balance, last_transaction,
                   fi, to_import, pending_bag, runs, prevFeed, prevDisk, failure>>

\* lines 327-373: one iteration of the balance loop that succeeds
AddBalance ==
    /\ pc = "balances"
    /\ ai <= Len(to_import)
    /\ LET account == to_import[ai][2]
           out == BalanceOutcome(feed[to_import[ai][1]].balances, pending_bag,
                                 last_balance, last_transaction, account)
       IN  /\ out.what \in {"continue", "push"}
           /\ ledger' = IF out.what = "push"
                        THEN Append1(ledger, order[fi], <<out.d>>)
                        ELSE ledger
    /\ ai' = ai + 1
    /\ UNCHANGED <<disk, feed, order, pc, ids, last_balance, last_transaction, fi,
                   to_import, pending_bag, runs, prevFeed, prevDisk, failure>>

\* line 338: `?` on a balance amount that is no decimal
BalanceFails ==
    /\ pc = "balances"
    /\ ai <= Len(to_import)
    /\ BalanceOutcome(feed[to_import[ai][1]].balances, pending_bag, last_balance,
                      last_transaction, to_import[ai][2]).what = "err"
    /\ pc' = "failed"
    /\ failure' = [kind |-> "Err", phase |-> "balances", cause |-> "amount"]
    /\ UNCHANGED <<disk, feed, ledger, order, ids, last_balance, last_transaction,
                   fi, to_import, ai, pending_bag, runs, prevFeed, prevDisk>>

\* lines 360 and 364: unwrap on a reference date that does not parse, or on
\* the missing last transaction date
BalancePanics ==
    /\ pc = "balances"
    /\ ai <= Len(to_import)
    /\ LET out == BalanceOutcome(feed[to_import[ai][1]].balances, pending_bag,
                                 last_balance, last_transaction, to_import[ai][2])
       IN  /\ out.what = "panic"
           /\ failure' = [kind |-> "panic", phase |-> "balances", cause |-> out.cause]
    /\ pc' = "failed"
    /\ UNCHANGED <<disk, feed, ledger, order, ids, last_balance, last_transaction,
                   fi, to_import, ai, pending_bag, runs, prevFeed, prevDisk>>

\* lines 235, 297 and 333: `?` on a request the bank's API does not answer
RequestFails ==
    /\ pc \in {"import", "transactions", "balances"}
    /\ IF pc = "import" THEN TRUE ELSE ai <= Len(to_import)
    /\ pc' = "failed"
    /\ failure' = [kind |-> "Err", phase |-> pc, cause |-> "request"]
    /\ UNCHANGED <<disk, feed, ledger, order, ids, last_balance, last_transaction,
                   fi, to_import, ai, pending_bag, runs, prevFeed, prevDisk>>

\* line 374: the balance loop is over, on to the next file
NextFile ==
    /\ pc = "balances"
    /\ ai > Len(to_import)
    /\ fi' = fi + 1
    /\ pc' = "file"
    /\ UNCHANGED <<disk, feed, ledger, order, ids, last_balance, last_transaction,
                   to_import, ai, pending_bag, runs, prevFeed, prevDisk, failure>>

\* line 375: Ok(())
Return ==
    /\ pc = "file"
    /\ fi > Len(order)
    /\ pc' = "returned"
    /\ UNCHANGED <<disk, feed, ledger, order, ids, last_balance, last_transaction,
                   fi, to_import, ai, pending_bag, runs, prevFeed, prevDisk, failure>>

\* The locals of a run that is over
Forget ==
    /\ ids' = {}
    /\ last_balance' = EmptyMap
    /\ last_transaction' = EmptyMap
    /\ fi' = 0
    /\ to_import' = <<>>
    /\ ai' = 0
    /\ pending_bag' = EmptyMap
    /\ failure' = NoFailure

\* lines 490-492: Ledger::write, reached only when import returned Ok
WriteLedger ==
    /\ pc = "returned"
    /\ disk' = ledger
    /\ ledger' = ledger
    /\ prevFeed' = Some(feed)
    /\ prevDisk' = disk
    /\ runs' = runs + 1
    /\ pc' = "idle"
    /\ Forget
    /\ UNCHANGED <<feed, order>>

\* Exit writing the ledger as it is in memory
ExitWriting ==
    /\ pc = "failed"
    /\ disk' = ledger
    /\ ledger' = ledger
    /\ prevFeed' = None
    /\ prevDisk' = disk
    /\ pc' = "idle"
    /\ Forget
    /\ UNCHANGED <<feed, order, runs>>

\* `?` on line 488, or the panic: the process ends, nothing is written
Exit ==
    /\ pc = "failed"
    /\ ledger' = disk
    /\ prevFeed' = None
    /\ prevDisk' = disk
    /\ pc' = "idle"
    /\ Forget
    /\ UNCHANGED <<disk, feed, order, runs>>

Next ==
    \/ ReadLedger
    \/ Index
    \/ ScanFile
    \/ AddTransactions
    \/ TransactionsFail
    \/ StartBalances
    \/ AddBalance
    \/ BalanceFails
    \/ BalancePanics
    \/ RequestFails
    \/ NextFile
    \/ Return
    \/ WriteLedger
    \/ Exit

Init ==
    /\ \/ disk \in GeneralLedgers /\ feed \in GeneralFeeds
       \/ disk \in OrderLedgers /\ feed \in OrderFeeds
       \/ disk \in BalanceLedgers /\ feed \in BalanceFeeds
       \/ disk \in IndexLedgers /\ feed \in IndexFeeds
    /\ ledger = disk
    /\ prevDisk = disk
    /\ prevFeed = None
    /\ runs = 0
    /\ pc = "idle"
    /\ order \in Orders
    /\ ids = {}
    /\ last_balance = EmptyMap
    /\ last_transaction = EmptyMap
    /\ fi = 0
    /\ to_import = <<>>
    /\ ai = 0
    /\ pending_bag = EmptyMap
    /\ failure = NoFailure

Spec == Init /\ [][Next]_vars

-----------------------------------------------------------------------------
(* What the properties speak of *)

IsPrefix(s, t) == Len(s) <= Len(t) /\ SubSeq(t, 1, Len(s)) = s

\* The directives a run has appended to file f of the in-memory ledger
Appended(f) == SubSeq(ledger[f], Len(disk[f]) + 1, Len(ledger[f]))

\* The directives the previous run has added to file f of the stored ledger
AppendedBefore(f) == SubSeq(disk[f], Len(prevDisk[f]) + 1, Len(disk[f]))

Elements(s) == {s[k] : k \in 1..Len(s)}

\* The links carried by the Transaction directives of a ledger, any file
CarriedLinks(l) ==
    UNION {d.links : d \in {e \in UNION {Elements(l[f]) : f \in Files} :
                                e.kind = "Transaction"}}

BookedRecords == UNION {Elements(feed[x].booked) : x \in DOMAIN feed}

\* The indexing pass of the run is over
Indexed ==
    \/ pc \in {"file", "transactions", "balances", "returned"}
    \/ pc = "failed" /\ failure.phase # "import"

Accounts == {"A", "B", "C", "D", "E"}

SetMax(S) == CHOOSE x \in S : \A y \in S : y <= x
SetMin(S) == CHOOSE x \in S : \A y \in S : x <= y

Concerns(d, a) ==
    \/ d.kind = "Transaction" /\ \E k \in 1..Len(d.postings) : d.postings[k].account = a
    \/ d.kind = "Balance" /\ d.account = a

-----------------------------------------------------------------------------
(* C10 *)

\* C10: append-only frame.  In every file the directives the run has read
\* are a prefix of the in-memory sequence, unchanged in content and order,
\* every directive behind that prefix is a Transaction or a Balance, and
\* what a run writes extends what it has read in the same way.
AppendOnlyFrame ==
    \A f \in Files :
        /\ IsPrefix(disk[f], ledger[f])
        /\ \A d \in Elements(Appended(f)) : d.kind \in {"Transaction", "Balance"}
        /\ IsPrefix(prevDisk[f], disk[f])
        /\ \A d \in Elements(AppendedBefore(f)) : d.kind \in {"Transaction", "Balance"}

\* A run has returned having appended a Transaction and a Balance behind
\* directives that were there before.
AppendOnlyWitness ==
    /\ pc = "returned"
    /\ \E f \in Files :
        /\ Len(disk[f]) > 2
        /\ \E d \in Elements(Appended(f)) : d.kind = "Transaction"
        /\ \E d \in Elements(Appended(f)) : d.kind = "Balance"

-----------------------------------------------------------------------------
(* C2 *)

\* C2: dedup correctness.  For every booked record whose id X is such that
\* the link id-X is carried by a Transaction directive of the ledger as the
\* run read it, no directive the run appends carries id-X, whatever the
\* record's narration, date and amount.
DedupCorrect ==
    \A r \in BookedRecords :
        (IsSome(r.internal_transaction_id)
            /\ format_link(Unwrap(r.internal_transaction_id)) \in CarriedLinks(disk))
        => \A f \in Files : \A d \in Elements(Appended(f)) :
               d.kind = "Transaction"
                   => format_link(Unwrap(r.internal_transaction_id)) \notin d.links

\* A run has returned, has appended something, and the feed held a record
\* whose link was in the ledger on a directive of another date and narration.
DedupWitness ==
    /\ pc = "returned"
    /\ \E f \in Files : Appended(f) # <<>>
    /\ \E r \in Elements(feed["X"].booked) : \E f \in Files : \E d \in Elements(disk[f]) :
        /\ d.kind = "Transaction"
        /\ IsSome(r.internal_transaction_id)
        /\ format_link(Unwrap(r.internal_transaction_id)) \in d.links
        /\ IsSome(r.booking_date)
        /\ parse_and_remainder(Unwrap(r.booking_date)).date # d.date
        /\ narration(r) # d.narration
        /\ ParseDecimal(r.transaction_amount.amount).value # Unwrap(d.postings[1].amount).value

-----------------------------------------------------------------------------
(* C3 *)

\* C3: link uniqueness.  No two Transaction directives of the stored ledger
\* carry the same id- link.
LinkUnique ==
    \A f \in Files, g \in Files :
        \A k \in 1..Len(disk[f]), j \in 1..Len(disk[g]) :
            (<<f, k>> # <<g, j>>
                /\ disk[f][k].kind = "Transaction" /\ disk[g][j].kind = "Transaction")
            => \A link \in disk[f][k].links \cap disk[g][j].links :
                   ~starts_with(link, IdPrefix)

-----------------------------------------------------------------------------
(* C9 *)

RECURSIVE ScanOrder(_, _)
ScanOrder(o, l) == IF o = <<>> THEN <<>> ELSE l[Head(o)] \o ScanOrder(Tail(o), l)

\* The directives in the order the indexing pass has seen them
Scanned == ScanOrder(order, disk)

BalancesOf(a) ==
    {k \in 1..Len(Scanned) : Scanned[k].kind = "Balance" /\ Scanned[k].account = a}

LatestOf(a) ==
    {k \in BalancesOf(a) : \A j \in BalancesOf(a) : Scanned[j].date <= Scanned[k].date}

\* C9 as stated: last_balance[account] is the (date, amount) of the
\* latest-dated Balance directive of the account, the last one in scan order
\* among those of that date.
LastBalanceLastSeen ==
    Indexed =>
        \A a \in Accounts :
            IF BalancesOf(a) = {} THEN a \notin DOMAIN last_balance
            ELSE /\ a \in DOMAIN last_balance
                 /\ last_balance[a] = <<Scanned[SetMax(LatestOf(a))].date,
                                        Scanned[SetMax(LatestOf(a))].amount>>

\* C9 amended: last_balance[account] is the (date, amount) of the
\* latest-dated Balance directive of the account, the first one in scan
\* order among those of that date; an account without Balance directive has
\* no entry.
LastBalanceFirstSeen ==
    Indexed =>
        \A a \in Accounts :
            IF BalancesOf(a) = {} THEN a \notin DOMAIN last_balance
            ELSE /\ a \in DOMAIN last_balance
                 /\ last_balance[a] = <<Scanned[SetMin(LatestOf(a))].date,
                                        Scanned[SetMin(LatestOf(a))].amount>>

\* The index is built over a ledger in which two Balance directives of A
\* share the latest date and differ in amount, behind an older one.
LastBalanceWitness ==
    /\ Indexed
    /\ Cardinality(LatestOf("A")) > 1
    /\ Scanned[SetMin(LatestOf("A"))].amount # Scanned[SetMax(LatestOf("A"))].amount
    /\ BalancesOf("A") # LatestOf("A")

-----------------------------------------------------------------------------
(* C1 *)

\* C1 as stated: a run on the ledger the previous run has written, with
\* the same answers of the bank, appends nothing.
SecondRunAppendsNothing ==
    (pc = "returned" /\ prevFeed = Some(feed)) => ledger = disk

\* C1 amended: such a run appends no Transaction directive for a record
\* that carries an internal id (a record without id is appended again), and
\* it appends a Balance directive for an account only when, in the ledger
\* the previous run has written, a Balance directive of the account that no
\* other one postdates asserts another amount, so that the index may still
\* take that one for the last known assertion.
SecondRunAmended ==
    (pc = "returned" /\ prevFeed = Some(feed)) =>
        \A f \in Files : \A d \in Elements(Appended(f)) :
            /\ d.kind = "Transaction" => d.links = {}
            /\ d.kind = "Balance" =>
                \E g \in Files : \E e \in Elements(disk[g]) :
                    /\ e.kind = "Balance" /\ e.account = d.account
                    /\ e.amount # d.amount
                    /\ \A h \in Files : \A e2 \in Elements(disk[h]) :
                           (e2.kind = "Balance" /\ e2.account = d.account)
                               => e2.date <= e.date

\* A second run with the same answers has returned without appending, the
\* first having appended a Transaction with its link and a Balance.
SecondRunWitness ==
    /\ pc = "returned"
    /\ prevFeed = Some(feed)
    /\ ledger = disk
    /\ \E f \in Files :
        /\ \E d \in Elements(AppendedBefore(f)) : d.kind = "Transaction" /\ d.links # {}
        /\ \E d \in Elements(AppendedBefore(f)) : d.kind = "Balance"

-----------------------------------------------------------------------------
(* C6 *)

ConfiguredIn(ds) == {ScanToImport(ds)[k][2] : k \in 1..Len(ScanToImport(ds))}

\* The accounts of the files behind the current one
LaterFiles == UNION {ConfiguredIn(ledger[order[j]]) : j \in {i \in 1..Len(order) : i > fi}}

\* The accounts of the failing iteration and of the iterations behind it
FailingOrLater ==
    {to_import[k][2] : k \in {j \in 1..Len(to_import) : j >= ai}} \cup LaterFiles

\* After a run that failed the stored ledger is the one that run has read
NothingPersisted ==
    (pc = "idle" /\ prevFeed = None) => disk = prevDisk

\* C6 as stated: when a run fails, no directive of the failing account or
\* of a later account has been appended, and the ledger is not persisted.
FailFastNoAppend ==
    /\ pc = "failed" =>
          \A a \in FailingOrLater : \A f \in Files : \A d \in Elements(Appended(f)) :
              ~Concerns(d, a)
    /\ NothingPersisted

\* C6 amended: when a run fails before or in the transactions loop of a
\* file (a record without booking date, a date or an amount that does not
\* parse, a request that fails), no directive of the failing account or of a
\* later account has been appended; when it fails in the balance loop, no
\* Balance directive of the failing account or of a later account and no
\* directive of an account of a later file has been appended, while the
\* transactions of the accounts of the current file are already in the
\* in-memory ledger; in every case the ledger is not persisted.
FailFastAmended ==
    /\ (pc = "failed" /\ failure.phase # "balances") =>
          \A a \in FailingOrLater : \A f \in Files : \A d \in Elements(Appended(f)) :
              ~Concerns(d, a)
    /\ (pc = "failed" /\ failure.phase = "balances") =>
          \A f \in Files : \A d \in Elements(Appended(f)) :
              /\ \A a \in FailingOrLater : d.kind = "Balance" => ~Concerns(d, a)
              /\ \A a \in LaterFiles : ~Concerns(d, a)
    /\ NothingPersisted

\* A run has failed on a record without booking date that follows a record
\* that converts, and nothing of the failing account is in the ledger.
FailFastWitness ==
    /\ pc = "failed"
    /\ failure.cause = "record"
    /\ feed[to_import[ai][1]].booked = <<Tb, NoBookingDate>>
    /\ \A f \in Files : \A d \in Elements(Appended(f)) : ~Concerns(d, to_import[ai][2])

\* A failed run is over and the stored ledger, which holds directives of an
\* earlier run, is what the failed run has read.
FailFastStoredWitness ==
    /\ pc = "idle"
    /\ runs > 0
    /\ prevFeed = None
    /\ disk = prevDisk
    /\ \E f \in Files : Len(disk[f]) > 4

-----------------------------------------------------------------------------
(* C7 *)

\* The balance iteration at hand has to emit a Balance directive and has
\* neither a reference date nor a last transaction date of the account
NeedsDateHasNone ==
    /\ ai \in 1..Len(to_import)
    /\ LET account == to_import[ai][2]
           balances == feed[to_import[ai][1]].balances
       IN  /\ IsSome(balances)
           /\ Unwrap(balances) # <<>>
           /\ ParseDecimal(Unwrap(balances)[1].balance_amount.amount).ok
           /\ ~IsSome(Unwrap(balances)[1].reference_date)
           /\ account \notin DOMAIN last_transaction
           /\ \/ account \notin DOMAIN last_balance
              \/ last_balance[account][2] #
                     AdjustedAmount(Unwrap(balances)[1], pending_bag, account)

\* C7 as stated: when a Balance directive has to be emitted and there is
\* neither a reference date nor a transaction date of the account, the run
\* fails with the error NoReferenceDate, that is import returns an Err for
\* want of a date, and no Balance directive is emitted.
NoReferenceDateIsError ==
    (pc = "failed" /\ failure.phase = "balances" /\ failure.cause # "request"
        /\ NeedsDateHasNone)
    => /\ failure.kind = "Err"
       /\ failure.cause = "no_date"
       /\ \A f \in Files : \A d \in Elements(Appended(f)) :
              d.kind = "Balance" => d.account # to_import[ai][2]

-----------------------------------------------------------------------------
(* C4 *)

\* The sum of the pending amounts of one currency
RECURSIVE PendingSum(_, _)
PendingSum(pending, currency) ==
    IF pending = <<>> THEN 0
    ELSE (IF Head(pending).transaction_amount.currency = currency
          THEN ParseDecimal(Head(pending).transaction_amount.amount).value
          ELSE 0) + PendingSum(Tail(pending), currency)

\* The first reported balance less the account's pending amounts of its currency
Adjusted(res) ==
    LET b == Unwrap(res.balances)[1]
    IN  Amount(ParseDecimal(b.balance_amount.amount).value
                   - PendingSum(IF IsSome(res.pending) THEN Unwrap(res.pending) ELSE <<>>,
                                b.balance_amount.currency),
               b.balance_amount.currency)

\* An iteration of the balance loop that completes
BalanceIteration == pc = "balances" /\ ai <= Len(to_import) /\ pc' = "balances"

\* C4: pending netting and skip rule.  An iteration of the balance loop
\* that completes for an account with a reported balance appends one Balance
\* directive of the account, carrying the first reported balance less the
\* account's pending amounts of that currency, when the account has no last
\* known assertion or one of another amount (value or currency), and
\* appends nothing otherwise.
PendingNetting ==
    [][BalanceIteration =>
        LET res == feed[to_import[ai][1]]
            account == to_import[ai][2]
            f == order[fi]
        IN  (IsSome(res.balances) /\ Unwrap(res.balances) # <<>>) =>
                IF account \notin DOMAIN last_balance
                   \/ last_balance[account][2] # Adjusted(res)
                THEN /\ Len(ledger'[f]) = Len(ledger[f]) + 1
                     /\ Last(ledger'[f]).kind = "Balance"
                     /\ Last(ledger'[f]).account = account
                     /\ Last(ledger'[f]).amount = Adjusted(res)
                     /\ \A g \in Files \ {f} : ledger'[g] = ledger[g]
                ELSE ledger' = ledger]_vars

\* With one pending USD and one pending EUR amount a reported 5 USD meets
\* the last known assertion of 4 USD and no Balance directive is appended.
PendingNettingWitness ==
    /\ pc = "returned"
    /\ IsSome(feed["X"].pending)
    /\ Len(Unwrap(feed["X"].pending)) = 2
    /\ IsSome(feed["X"].balances)
    /\ Unwrap(feed["X"].balances) # <<>>
    /\ Adjusted(feed["X"]) = Amount(4, "USD")
    /\ \E f \in Files : \E d \in Elements(disk[f]) :
           d.kind = "Balance" /\ d.account = "A" /\ d.amount = Amount(4, "USD")
    /\ \A f \in Files : \A d \in Elements(Appended(f)) : d.kind # "Balance"

\* A reported 5 USD with two pending amounts of 1 USD is asserted as 3 USD
\* where the last known assertion is 4 USD.
PendingNettingEmitted ==
    /\ pc = "returned"
    /\ IsSome(feed["X"].pending)
    /\ IsSome(feed["X"].balances)
    /\ Unwrap(feed["X"].balances) # <<>>
    /\ Adjusted(feed["X"]) = Amount(3, "USD")
    /\ \E f \in Files : \E d \in Elements(disk[f]) :
           d.kind = "Balance" /\ d.account = "A" /\ d.amount = Amount(4, "USD")
    /\ \E f \in Files : \E d \in Elements(Appended(f)) :
           d.kind = "Balance" /\ d.account = "A" /\ d.amount = Amount(3, "USD")

-----------------------------------------------------------------------------
(* C5 *)

\* The dates of the Transaction directives of l with a posting on account a
TransactionDates(l, a) ==
    {d.date : d \in {e \in UNION {Elements(l[f]) : f \in Files} :
                        e.kind = "Transaction" /\ Concerns(e, a)}}

\* C5: balance date.  A Balance directive that the balance loop appends is
\* dated with the reference date of the reported balance when there is one,
\* and else with the day after the latest date of the Transaction
\* directives of the in-memory ledger that have a posting on the account:
\* those read and those appended earlier in the run.
BalanceDateRule ==
    [][(BalanceIteration /\ ledger' # ledger) =>
        LET b == Unwrap(feed[to_import[ai][1]].balances)[1]
            account == to_import[ai][2]
            d == Last(ledger'[order[fi]])
        IN  /\ d.kind = "Balance"
            /\ d.date = IF IsSome(b.reference_date)
                        THEN Unwrap(b.reference_date).day
                        ELSE SetMax(TransactionDates(ledger, account)) + 1]_vars

\* Without reference date a Balance of A is dated the day after a
\* transaction appended in the same run, which is later than the one of the
\* ledger as read.
BalanceDateWitness ==
    /\ pc = "returned"
    /\ IsSome(feed["X"].balances)
    /\ Unwrap(feed["X"].balances) # <<>>
    /\ ~IsSome(Unwrap(feed["X"].balances)[1].reference_date)
    /\ TransactionDates(disk, "A") # {}
    /\ \E f \in Files : \E d \in Elements(Appended(f)), t \in Elements(Appended(f)) :
        /\ d.kind = "Balance" /\ d.account = "A"
        /\ t.kind = "Transaction" /\ Concerns(t, "A")
        /\ d.date = t.date + 1
        /\ t.date > SetMax(TransactionDates(disk, "A"))

-----------------------------------------------------------------------------
(* C8 *)

\* The indices of the booked records of res that are appended for account:
\* those that are no duplicates
NewRecords(res, account) ==
    {k \in 1..Len(res.booked) :
        ~is_duplicate(gocardless_transaction_to_beancount(res.booked[k], account).d, ids)}

\* An iteration of the transactions loop that completes
TransactionsIteration == pc = "transactions" /\ ai <= Len(to_import) /\ pc' = "transactions"

\* C8: order of a batch.  The Transaction directives that one iteration of
\* the transactions loop appends are those of the new records of the feed,
\* in non-decreasing date order, and of two directives of the same date the
\* one that comes later in the feed is appended first.
BatchOrder ==
    [][TransactionsIteration =>
        LET res == feed[to_import[ai][1]]
            account == to_import[ai][2]
            f == order[fi]
            batch == SubSeq(ledger'[f], Len(ledger[f]) + 1, Len(ledger'[f]))
        IN  /\ IsPrefix(ledger[f], ledger'[f])
            /\ \E p \in [1..Len(batch) -> NewRecords(res, account)] :
                /\ \A k \in NewRecords(res, account) : \E i \in 1..Len(batch) : p[i] = k
                /\ \A i \in 1..Len(batch) :
                       batch[i] = gocardless_transaction_to_beancount(
                                      res.booked[p[i]], account).d
                /\ \A i \in 1..Len(batch), j \in 1..Len(batch) :
                       i < j => /\ batch[i].date <= batch[j].date
                                /\ batch[i].date = batch[j].date => p[i] > p[j]]_vars

\* The feed lists three records of the days 3, 1, 2 and they are appended
\* in the order 1, 2, 3.
BatchOrderWitness ==
    /\ pc = "returned"
    /\ Len(feed["X"].booked) = 3
    /\ [k \in 1..3 |-> Unwrap(feed["X"].booked[k].booking_date).day] = <<3, 1, 2>>
    /\ \E f \in Files :
        /\ Len(Appended(f)) = 3
        /\ [k \in 1..3 |-> Appended(f)[k].date] = <<1, 2, 3>>

\* The feed lists two records of the same day and the second is appended first.
BatchTieWitness ==
    /\ pc = "returned"
    /\ Len(feed["X"].booked) = 2
    /\ \E f \in Files :
        /\ Len(Appended(f)) = 2
        /\ Appended(f)[1].date = Appended(f)[2].date
        /\ Appended(f)[1] = gocardless_transaction_to_beancount(feed["X"].booked[2], "A").d
        /\ Appended(f)[2] = gocardless_transaction_to_beancount(feed["X"].booked[1], "A").d
        /\ Appended(f)[1] # Appended(f)[2]

====
